---- MODULE Spec2Model ----
(***************************************************************************)
(* Session lifecycle and buffer geometry of the codec bridges              *)
(*   packages/mpeg4/src/xvid-bridge.c       (video decoder / encoder)      *)
(*   packages/mp3-encoder/src/lame-bridge.c (audio encoder)                *)
(*                                                                         *)
(* The codec libraries (xvid, LAME) and malloc/free are collaborators:     *)
(* their results are nondeterministic inputs of the actions.  The caller   *)
(* is the environment: it creates sessions, drives live ones, and may      *)
(* close any pointer it was ever handed (and NULL), any number of times.   *)
(***************************************************************************)
EXTENDS Integers, Sequences, FiniteSets, TLC

\* ------------------------------------------------------------------ bounds
\* Sessions created in one run (wrappers and codec contexts are numbered by
\* the Create call that allocated them).
MaxSessions == 2
\* Small frame dimensions: 0..MaxDim.
MaxDim == 2

\* ------------------------------------------------------- program constants
NULL == 0
\* largest value of the C type int (32 bits in every build of the bridges)
IntMax == 2147483647
\* the frame type xvid reports for a parsed VOL header (dec_stats.type == -1)
HeaderOnly == -1
\* enc_create.max_key_interval
MaxKeyInterval == 250

Addr == 1..MaxSessions
Handle == 1..MaxSessions

\* A dimension large enough that w*h fits an int and w*h*5 does not.
BigDim == 2^15
\* width/height arguments a caller passes to init_decoder / init_encoder:
\* none, an even picture that is not square, one whose plane size overflows
HintPairs == {<<0, 0>>, <<2, 4>>, <<BigDim, BigDim>>}
\* width/height a VOL header can carry
VolPairs == {<<1, MaxDim>>, <<2, 2>>}

\* ------------------------------------------------------------ C arithmetic
\* C's integer division truncates toward zero (b > 0).
CDiv(a, b) == IF a >= 0 THEN a \div b ELSE -((-a) \div b)

\* a * b fits an int (a, b >= 0)
MulFits(a, b) == a = 0 \/ b <= IntMax \div a

\* (p * 5) as a 32-bit two's-complement multiply leaves it, for 0 <= p <= IntMax,
\* computed on 16-bit halves.
Times5Wrap(p) ==
    LET lo5   == (p % 65536) * 5
        hi5   == (p \div 65536) * 5 + lo5 \div 65536
        lo    == lo5 % 65536
        hi    == hi5 % 65536
    IN  IF hi >= 32768 THEN (hi - 65536) * 65536 + lo ELSE hi * 65536 + lo

\* The values (p * 5 / 4) can take: the exact quotient while p * 5 fits an int;
\* past that the signed overflow is undefined, and a build either wraps the
\* product to 32 bits or keeps it exact in a wider register.
Times5Div4(p) ==
    IF MulFits(5, p) THEN {CDiv(p * 5, 4)}
    ELSE {CDiv(Times5Wrap(p), 4), p + p \div 4}

\* ------------------------------------------------------------------- state
VARIABLES
    mem,      \* mem[a]: the malloc'd wrapper at address a is "unused", "live" or "freed"
    obj,      \* obj[a]: the words of decoder_state / encoder_state at a
    kind,     \* kind[a]: which Create returned a to the caller ("dec", "enc"), else "none"
    ctx,      \* ctx[h]: the codec context behind handle h is "unused", "live" or "destroyed"
    ckind,    \* ckind[h]: the library call that created h ("dec", "enc", "lame")
    lame,     \* lame[h]: the configuration LAME holds for context h
    encp,     \* encp[h]: the parameters the codec was given when it created encoder context h
    resolved, \* resolved[a]: the width/height of a's Create, then (decoder) of the latest VOL
              \* header, until a is closed
    known,    \* known[a]: a VOL header has been seen on a (DimensionsKnown) since its Create
    gbl,      \* xvid_global has run
    created,  \* Create calls so far
    halted,   \* the process trapped on an undefined access
    last      \* the call that just returned: arguments, codec calls in order, results

vars == <<mem, obj, kind, ctx, ckind, lame, encp, resolved, known, gbl, created, halted, last>>

ZeroObj == [handle |-> NULL, width |-> 0, height |-> 0]
ZeroParams == [width |-> 0, height |-> 0, fincr |-> 0, fbase |-> 0,
               num_zones |-> 0, num_plugins |-> 0, num_threads |-> 0, max_bframes |-> 0,
               max_key_interval |-> 0, global |-> 0]
ZeroCfg == [num_channels |-> 0, in_samplerate |-> 0, out_samplerate |-> 0,
            brate |-> 0, bWriteVbrTag |-> 1, params |-> 1]

Init ==
    /\ mem = [a \in Addr |-> "unused"]
    /\ obj = [a \in Addr |-> ZeroObj]
    /\ kind = [a \in Addr |-> "none"]
    /\ ctx = [h \in Handle |-> "unused"]
    /\ ckind = [h \in Handle |-> "none"]
    /\ lame = [h \in Handle |-> ZeroCfg]
    /\ encp = [h \in Handle |-> ZeroParams]
    /\ resolved = [a \in Addr |-> <<0, 0>>]
    /\ known = [a \in Addr |-> FALSE]
    /\ gbl = FALSE
    /\ created = 0
    /\ halted = FALSE
    /\ last = [op |-> "none"]

\* One call into a codec library or the allocator, as the bridge issued it.
Call(fn, h) == [fn |-> fn, h |-> h]

\* An undefined access either goes unnoticed or traps the process.
TrapOutcomes(faults) == IF faults = {} THEN {FALSE} ELSE BOOLEAN

\* ----------------------------------------------------------- video decoder
\* Result codes of xvid_decore(XVID_DEC_CREATE) / xvid_encore(XVID_ENC_CREATE)
CreateRets == {0, -1}
\* Result codes of a decoder or encoder step: an error, nothing, bytes
StepRets == {-1, 0, 2}
\* dec_stats after the step.  The words read as data.vol.width / height are
\* the header's for a VOL header; otherwise they are the zeros of the memset
\* (nothing decoded) or whatever the VOP data of the union left there.
DecStats ==
    {[type |-> HeaderOnly, width |-> p[1], height |-> p[2]] : p \in VolPairs}
    \cup {[type |-> 0, width |-> 0, height |-> 0],
          [type |-> 1, width |-> MaxDim, height |-> 1]}
\* (type 0: nothing decoded; type 1: an I-VOP)

\* The width/height in the VOL header of the stream an encoder context
\* writes: the ones the context was created with.
xvid_stream_vol(params) == <<params.width, params.height>>
\* dec_stats after the step on a unit of a stream whose VOL header carries vol.
EncodedStats(vol) ==
    {[type |-> HeaderOnly, width |-> vol[1], height |-> vol[2]],
     [type |-> 0, width |-> 0, height |-> 0],
     [type |-> 1, width |-> MaxDim, height |-> 1]}
\* Where the bytes handed to decode_frame come from: anywhere, or the
\* encode_frame call that has just returned them.
Inputs == {"any", "encoded"}
\* Which of out_type, out_width, out_height the caller passes non-NULL
OutSets == {{}, {"type", "width", "height"}}

\* xvid-bridge.c:37-47: what init_decoder does with malloc's and the codec's
\* results.  p is malloc's result (NULL on failure), ret and h the codec's.
init_decoder_result(p, ret, h, width, height) ==
    IF ret # 0
    THEN [ret |-> NULL, freed |-> p, faults |-> {},
          store |-> FALSE, state |-> ZeroObj]
    ELSE [ret |-> p, freed |-> NULL,
          faults |-> IF p = NULL THEN {"null_write"} ELSE {},
          store |-> p # NULL,
          state |-> [handle |-> h, width |-> width, height |-> height]]

init_decoder(width, height) ==
    /\ ~halted
    /\ created < MaxSessions
    /\ \E mallocOk \in BOOLEAN, ret \in CreateRets :
         LET n  == created + 1
             p  == IF mallocOk THEN n ELSE NULL
             h  == IF ret = 0 THEN n ELSE NULL
             r  == init_decoder_result(p, ret, h, width, height)
         IN  /\ created' = n
             /\ gbl' = TRUE
             /\ ctx' = IF h # NULL THEN [ctx EXCEPT ![h] = "live"] ELSE ctx
             /\ ckind' = IF h # NULL THEN [ckind EXCEPT ![h] = "dec"] ELSE ckind
             /\ mem' = IF p = NULL THEN mem
                       ELSE [mem EXCEPT ![p] = IF r.freed = p THEN "freed" ELSE "live"]
             /\ obj' = IF r.store THEN [obj EXCEPT ![p] = r.state] ELSE obj
             /\ kind' = IF r.ret # NULL THEN [kind EXCEPT ![r.ret] = "dec"] ELSE kind
             /\ resolved' = IF r.store THEN [resolved EXCEPT ![p] = <<width, height>>]
                            ELSE resolved
             /\ known' = known
             /\ \E trap \in TrapOutcomes(r.faults) :
                  /\ halted' = trap
                  /\ last' = [op |-> "init_decoder", ret |-> r.ret,
                              width |-> width, height |-> height,
                              malloc |-> p, codec |-> ret, handle |-> h,
                              calls |-> <<Call("xvid_global", NULL), Call("malloc", p),
                                          Call("XVID_DEC_CREATE", NULL)>>
                                        \o (IF r.freed # NULL \/ ret # 0
                                            THEN <<Call("free", p)>> ELSE <<>>),
                              faults |-> r.faults]
    /\ UNCHANGED <<lame, encp>>

\* xvid-bridge.c:71-76: the planes (offsets into output_buf) and strides handed
\* to the decoder step.
decode_planes(state) ==
    {[plane  |-> <<0, state.width * state.height, v>>,
      stride |-> <<state.width, CDiv(state.width, 2), CDiv(state.width, 2)>>] :
        v \in Times5Div4(state.width * state.height)}

\* decode_update, storing the header's width and dropping its height.
decode_update_width_only(state, stats) ==
    IF stats.type = HeaderOnly
    THEN [state EXCEPT !.width = stats.width]
    ELSE state

\* decode_update, resolving the dimensions only while they are still 0/0.
decode_update_first_only(state, stats) ==
    IF stats.type = HeaderOnly /\ state.width = 0 /\ state.height = 0
    THEN [state EXCEPT !.width = stats.width, !.height = stats.height]
    ELSE state

\* decode_update, taking every unit with a nonzero type for a header.
decode_update_nonzero(state, stats) ==
    IF stats.type # 0
    THEN [state EXCEPT !.width = stats.width, !.height = stats.height]
    ELSE state

\* xvid-bridge.c:83-86: the session after the step reported stats.
decode_update(state, stats) ==
    IF stats.type = HeaderOnly
    THEN [state EXCEPT !.width = stats.width, !.height = stats.height]
    ELSE state

\* decode_outputs, reporting the width/height words of dec_stats instead of
\* the session's.
decode_outputs_from_stats(state, stats, outs) ==
    [type   |-> IF "type" \in outs THEN stats.type ELSE 0,
     width  |-> IF "width" \in outs THEN stats.width ELSE 0,
     height |-> IF "height" \in outs THEN stats.height ELSE 0]

\* xvid-bridge.c:88-96: what is written through the non-NULL out pointers.
decode_outputs(state, stats, outs) ==
    [type   |-> IF "type" \in outs THEN stats.type ELSE 0,
     width  |-> IF "width" \in outs THEN state.width ELSE 0,
     height |-> IF "height" \in outs THEN state.height ELSE 0]

\* decode_return, reporting a header-only unit as "nothing consumed".
decode_return_header(ret, stats) == IF stats.type = HeaderOnly THEN 0 ELSE ret

\* xvid-bridge.c:98: the value decode_frame returns for the step's result.
decode_return(ret, stats) == ret

\* decode_frame_body, filling in the planes after the step: the geometry then
\* follows the dimensions the step has just resolved.
decode_frame_body_late(state, ret, stats, outs) ==
    LET state2 == decode_update(state, stats)
    IN  {[plane |-> g.plane, stride |-> g.stride, state |-> state2,
          out |-> decode_outputs(state2, stats, outs),
          ret |-> decode_return(ret, stats)] : g \in decode_planes(state2)}

\* xvid-bridge.c:60-98: one decode_frame call on the session words `state`,
\* the step answering ret and stats: the geometry handed to the step, the
\* session afterwards, the out values and the return value.
decode_frame_body(state, ret, stats, outs) ==
    LET state2 == decode_update(state, stats)
    IN  {[plane |-> g.plane, stride |-> g.stride, state |-> state2,
          out |-> decode_outputs(state2, stats, outs),
          ret |-> decode_return(ret, stats)] : g \in decode_planes(state)}

decode_frame(a, outs, input) ==
    /\ ~halted
    /\ mem[a] = "live"
    /\ kind[a] = "dec"
    /\ input = "encoded" => (last.op = "encode_frame" /\ last.ret > 0)
    /\ \E ret \in StepRets,
          stats \in (IF input = "encoded" THEN EncodedStats(last.vol) ELSE DecStats) :
       \E r \in decode_frame_body(obj[a], ret, stats, outs) :
             /\ obj' = [obj EXCEPT ![a] = r.state]
             /\ resolved' = IF stats.type = HeaderOnly
                            THEN [resolved EXCEPT ![a] = <<stats.width, stats.height>>]
                            ELSE resolved
             /\ known' = IF stats.type = HeaderOnly THEN [known EXCEPT ![a] = TRUE]
                         ELSE known
             /\ last' = [op |-> "decode_frame", session |-> a,
                         input |-> input,
                         encoder |-> IF input = "encoded" THEN last.session ELSE NULL,
                         ret |-> r.ret, codec |-> ret,
                         stats |-> stats,
                         pre |-> obj[a], preResolved |-> resolved[a],
                         preKnown |-> known[a],
                         plane |-> r.plane, stride |-> r.stride,
                         outs |-> outs, out |-> r.out,
                         calls |-> <<Call("XVID_DEC_DECODE", obj[a].handle)>>,
                         faults |-> {}]
    /\ UNCHANGED <<mem, kind, ctx, ckind, lame, encp, gbl, created, halted>>

\* The pointers a caller can hold for component k: every result of a Create
\* of that component, NULL included.
Held(k) == {NULL} \cup {a \in Addr : kind[a] = k}

\* What a read of the wrapper at p yields: its words while it is live; after
\* free the read is undefined and yields the stale words or a cleared handle.
StateRead(p) ==
    IF p = NULL THEN {ZeroObj}
    ELSE IF mem[p] = "live" THEN {obj[p]}
    ELSE {obj[p], [obj[p] EXCEPT !.handle = NULL]}

\* close_decoder_calls, with the decoder handle kept in one static word that
\* every Create overwrites instead of in the session.
close_decoder_calls_static(p, m, s) ==
    IF p = NULL THEN <<>>
    ELSE <<Call("XVID_DEC_DESTROY", created), Call("free", p)>>

\* close_decoder_calls, releasing the wrapper before the context it names.
close_decoder_calls_free_first(p, m, s) ==
    IF p = NULL THEN <<>>
    ELSE <<Call("free", p)>>
         \o (IF s.handle # NULL THEN <<Call("XVID_DEC_DESTROY", s.handle)>> ELSE <<>>)

\* xvid-bridge.c:102-109: the codec and allocator calls of close_decoder on
\* pointer p whose memory is in state m and holds the words s.
close_decoder_calls(p, m, s) ==
    IF p = NULL THEN <<>>
    ELSE (IF s.handle # NULL THEN <<Call("XVID_DEC_DESTROY", s.handle)>> ELSE <<>>)
         \o <<Call("free", p)>>

\* What goes wrong in a run of calls: a read of freed wrapper memory, a
\* destroy of a context that is not live, a free of memory that is not live.
CloseFaults(p, m, calls) ==
    (IF p # NULL /\ m # "live" THEN {"read_freed"} ELSE {})
    \cup {"double_destroy" : i \in {j \in 1..Len(calls) :
              /\ calls[j].fn \in {"XVID_DEC_DESTROY", "XVID_ENC_DESTROY", "lame_close"}
              /\ calls[j].h # NULL
              /\ ctx[calls[j].h] # "live"}}
    \cup {"double_free" : i \in {j \in 1..Len(calls) :
              calls[j].fn = "free" /\ m # "live"}}

\* The contexts and the memory after the calls of a Close.
CtxAfter(calls) ==
    [h \in Handle |->
        IF \E j \in 1..Len(calls) :
              calls[j].fn \in {"XVID_DEC_DESTROY", "XVID_ENC_DESTROY", "lame_close"}
              /\ calls[j].h = h
        THEN "destroyed" ELSE ctx[h]]
MemAfter(calls) ==
    [a \in Addr |->
        IF \E j \in 1..Len(calls) : calls[j].fn = "free" /\ calls[j].h = a
        THEN "freed" ELSE mem[a]]

close_decoder(p) ==
    /\ ~halted
    /\ p \in Held("dec")
    /\ \E s \in StateRead(p) :
       LET m      == IF p = NULL THEN "live" ELSE mem[p]
           calls  == close_decoder_calls(p, m, s)
           faults == CloseFaults(p, m, calls)
       IN  /\ ctx' = CtxAfter(calls)
           /\ mem' = MemAfter(calls)
           /\ obj' = IF p = NULL THEN obj
                     ELSE [obj EXCEPT ![p] = [ZeroObj EXCEPT !.handle = obj[p].handle]]
           /\ \E trap \in TrapOutcomes(faults) :
                /\ halted' = trap
                /\ last' = [op |-> "close_decoder", session |-> p, pre |-> m,
                            handle |-> s.handle,
                            calls |-> calls, faults |-> faults]
           /\ resolved' = IF p = NULL THEN resolved ELSE [resolved EXCEPT ![p] = <<0, 0>>]
           /\ known' = IF p = NULL THEN known ELSE [known EXCEPT ![p] = FALSE]
    /\ UNCHANGED <<kind, ckind, lame, encp, gbl, created>>

DecNext ==
    \/ \E p \in HintPairs : init_decoder(p[1], p[2])
    \/ \E a \in Addr, outs \in OutSets : decode_frame(a, outs, "any")
    \/ \E p \in {NULL} \cup Addr : close_decoder(p)

SpecDec == Init /\ [][DecNext]_vars

\* ----------------------------------------------------------- video encoder
\* bitrate, fps_num / fps_den arguments of init_encoder
VideoBitrates == {400000, 500000}
FrameRates == {<<25, 1>>}
\* enc_stats.length after the step (zero from the memset when none was written)
EncLengths == {0, 3}

\* enc_create_params, passing the bitrate on to the codec in a parameter word.
enc_create_params_rate(width, height, bitrate, fps_num, fps_den) ==
    [width |-> width, height |-> height, fincr |-> fps_den, fbase |-> fps_num,
     num_zones |-> 0, num_plugins |-> 0, num_threads |-> 0, max_bframes |-> 0,
     max_key_interval |-> MaxKeyInterval, global |-> bitrate]

\* enc_create_params, with width and height in each other's field.
enc_create_params_swapped(width, height, bitrate, fps_num, fps_den) ==
    [width |-> height, height |-> width, fincr |-> fps_den, fbase |-> fps_num,
     num_zones |-> 0, num_plugins |-> 0, num_threads |-> 0, max_bframes |-> 0,
     max_key_interval |-> MaxKeyInterval, global |-> 0]

\* xvid-bridge.c:126-140: the parameters handed to XVID_ENC_CREATE.
enc_create_params(width, height, bitrate, fps_num, fps_den) ==
    [width |-> width, height |-> height, fincr |-> fps_den, fbase |-> fps_num,
     num_zones |-> 0, num_plugins |-> 0, num_threads |-> 0, max_bframes |-> 0,
     max_key_interval |-> MaxKeyInterval, global |-> 0]

\* init_encoder_result, storing the two dimensions in each other's field.
init_encoder_result_swapped(p, ret, h, width, height) ==
    IF ret # 0
    THEN [ret |-> NULL, freed |-> p, faults |-> {},
          store |-> FALSE, state |-> ZeroObj]
    ELSE [ret |-> p, freed |-> NULL,
          faults |-> IF p = NULL THEN {"null_write"} ELSE {},
          store |-> p # NULL,
          state |-> [handle |-> h, width |-> height, height |-> width]]

\* xvid-bridge.c:144-154: what init_encoder does with malloc's and the codec's
\* results.  p is malloc's result (NULL on failure), ret and h the codec's.
init_encoder_result(p, ret, h, width, height) ==
    IF ret # 0
    THEN [ret |-> NULL, freed |-> p, faults |-> {},
          store |-> FALSE, state |-> ZeroObj]
    ELSE [ret |-> p, freed |-> NULL,
          faults |-> IF p = NULL THEN {"null_write"} ELSE {},
          store |-> p # NULL,
          state |-> [handle |-> h, width |-> width, height |-> height]]

init_encoder(width, height, bitrate, fps_num, fps_den) ==
    /\ ~halted
    /\ created < MaxSessions
    /\ \E mallocOk \in BOOLEAN, ret \in CreateRets :
         LET n  == created + 1
             p  == IF mallocOk THEN n ELSE NULL
             h  == IF ret = 0 THEN n ELSE NULL
             r  == init_encoder_result(p, ret, h, width, height)
             enc_create == enc_create_params(width, height, bitrate, fps_num, fps_den)
             prior == IF last.op = "init_encoder"
                      THEN [op |-> last.op, ret |-> last.ret,
                            width |-> last.width, height |-> last.height,
                            bitrate |-> last.bitrate,
                            fps_num |-> last.fps_num, fps_den |-> last.fps_den,
                            create |-> last.create]
                      ELSE [op |-> last.op]
         IN  /\ created' = n
             /\ gbl' = TRUE
             /\ ctx' = IF h # NULL THEN [ctx EXCEPT ![h] = "live"] ELSE ctx
             /\ ckind' = IF h # NULL THEN [ckind EXCEPT ![h] = "enc"] ELSE ckind
             /\ mem' = IF p = NULL THEN mem
                       ELSE [mem EXCEPT ![p] = IF r.freed = p THEN "freed" ELSE "live"]
             /\ obj' = IF r.store THEN [obj EXCEPT ![p] = r.state] ELSE obj
             /\ kind' = IF r.ret # NULL THEN [kind EXCEPT ![r.ret] = "enc"] ELSE kind
             /\ encp' = IF h # NULL THEN [encp EXCEPT ![h] = enc_create] ELSE encp
             /\ resolved' = IF r.store THEN [resolved EXCEPT ![p] = <<width, height>>]
                            ELSE resolved
             /\ \E trap \in TrapOutcomes(r.faults) :
                  /\ halted' = trap
                  /\ last' = [op |-> "init_encoder", ret |-> r.ret,
                              width |-> width, height |-> height, bitrate |-> bitrate,
                              fps_num |-> fps_num, fps_den |-> fps_den,
                              malloc |-> p, codec |-> ret, handle |-> h,
                              create |-> enc_create, prior |-> prior,
                              calls |-> <<Call("xvid_global", NULL), Call("malloc", p),
                                          Call("XVID_ENC_CREATE", NULL)>>
                                        \o (IF ret # 0
                                            THEN <<Call("free", p)>> ELSE <<>>),
                              faults |-> r.faults]
    /\ UNCHANGED <<lame, known>>

\* encode_planes, laying the chroma planes out as 4:2:2 (V at w*h*3/2).
encode_planes_422(state) ==
    {[plane  |-> <<0, state.width * state.height,
                   state.width * state.height + CDiv(state.width * state.height, 2)>>,
      stride |-> <<state.width, CDiv(state.width, 2), CDiv(state.width, 2)>>]}

\* xvid-bridge.c:175-180: the planes (offsets into yuv_input) and strides
\* handed to the encoder step.
encode_planes(state) ==
    {[plane  |-> <<0, state.width * state.height, v>>,
      stride |-> <<state.width, CDiv(state.width, 2), CDiv(state.width, 2)>>] :
        v \in Times5Div4(state.width * state.height)}

\* xvid-bridge.c:172: the frame type requested of the encoder.
encode_type(force_keyframe) == IF force_keyframe # 0 THEN "XVID_TYPE_IVOP" ELSE "XVID_TYPE_AUTO"

\* encode_return, passing the step's result through in every case.
encode_return_raw(ret, stats) == ret

\* xvid-bridge.c:191-195: the value encode_frame returns.
encode_return(ret, stats) == IF ret > 0 THEN stats.length ELSE ret

encode_frame(a, force_keyframe) ==
    /\ ~halted
    /\ mem[a] = "live"
    /\ kind[a] = "enc"
    /\ \E g \in encode_planes(obj[a]), ret \in StepRets, len \in EncLengths :
         LET stats == [length |-> len]
         IN  last' = [op |-> "encode_frame", session |-> a,
                      ret |-> encode_return(ret, stats), codec |-> ret,
                      stats |-> stats, pre |-> obj[a],
                      force_keyframe |-> force_keyframe,
                      vol |-> xvid_stream_vol(encp[obj[a].handle]),
                      type |-> encode_type(force_keyframe),
                      plane |-> g.plane, stride |-> g.stride,
                      calls |-> <<Call("XVID_ENC_ENCODE", obj[a].handle)>>,
                      faults |-> {}]
    /\ UNCHANGED <<mem, obj, kind, ctx, ckind, lame, encp, resolved, known, gbl, created,
                   halted>>

\* xvid-bridge.c:199-205: the codec and allocator calls of close_encoder on
\* pointer p whose memory is in state m and holds the words s.
close_encoder_calls(p, m, s) ==
    IF p = NULL THEN <<>>
    ELSE (IF s.handle # NULL THEN <<Call("XVID_ENC_DESTROY", s.handle)>> ELSE <<>>)
         \o <<Call("free", p)>>

close_encoder(p) ==
    /\ ~halted
    /\ p \in Held("enc")
    /\ \E s \in StateRead(p) :
       LET m      == IF p = NULL THEN "live" ELSE mem[p]
           calls  == close_encoder_calls(p, m, s)
           faults == CloseFaults(p, m, calls)
       IN  /\ ctx' = CtxAfter(calls)
           /\ mem' = MemAfter(calls)
           /\ obj' = IF p = NULL THEN obj
                     ELSE [obj EXCEPT ![p] = [ZeroObj EXCEPT !.handle = obj[p].handle]]
           /\ \E trap \in TrapOutcomes(faults) :
                /\ halted' = trap
                /\ last' = [op |-> "close_encoder", session |-> p, pre |-> m,
                            handle |-> s.handle,
                            calls |-> calls, faults |-> faults]
           /\ encp' = [h \in Handle |-> IF ctx'[h] = "destroyed" THEN ZeroParams ELSE encp[h]]
           /\ resolved' = IF p = NULL THEN resolved ELSE [resolved EXCEPT ![p] = <<0, 0>>]
    /\ UNCHANGED <<kind, ckind, lame, known, gbl, created>>

EncNext ==
    \/ \E p \in HintPairs, b \in VideoBitrates, f \in FrameRates :
          init_encoder(p[1], p[2], b, f[1], f[2])
    \/ \E a \in Addr, k \in {0, 1} : encode_frame(a, k)
    \/ \E p \in {NULL} \cup Addr : close_encoder(p)

SpecEnc == Init /\ [][EncNext]_vars

\* ----------------------------------------------------------- audio encoder
Channels == {1, 2}
SampleRates == {44100}
AudioBitrates == {128000, 96500, 999}
\* Result of lame_init_params: configuration accepted, or rejected
ParamRets == {0, -1}

\* lame_settings, handing the bitrate to lame_set_brate in bits per second.
lame_settings_bps(number_of_channels, sample_rate, bitrate) ==
    [num_channels |-> number_of_channels,
     in_samplerate |-> sample_rate,
     out_samplerate |-> sample_rate,
     brate |-> bitrate,
     bWriteVbrTag |-> 0]

\* lame-bridge.c:16-20: the configuration set on the context before
\* lame_init_params.
lame_settings(number_of_channels, sample_rate, bitrate) ==
    [num_channels |-> number_of_channels,
     in_samplerate |-> sample_rate,
     out_samplerate |-> sample_rate,
     brate |-> CDiv(bitrate, 1000),
     bWriteVbrTag |-> 0]

\* init_lame, failing when lame_init_params rejects the configuration.
init_lame_return_checked(gfp, ret_code) == IF ret_code # 0 THEN NULL ELSE gfp

\* lame-bridge.c:22-24: the value init_lame returns, given lame_init's
\* context and lame_init_params' result.
init_lame_return(gfp, ret_code) == gfp

init_lame(number_of_channels, sample_rate, bitrate) ==
    /\ ~halted
    /\ created < MaxSessions
    /\ \E initOk \in BOOLEAN, ret_code \in ParamRets :
         LET n   == created + 1
             gfp == IF initOk THEN n ELSE NULL
             cfg == lame_settings(number_of_channels, sample_rate, bitrate)
         IN  /\ created' = n
             \* the setters and lame_init_params reject a NULL context
             /\ ctx' = IF gfp # NULL THEN [ctx EXCEPT ![gfp] = "live"] ELSE ctx
             /\ ckind' = IF gfp # NULL THEN [ckind EXCEPT ![gfp] = "lame"] ELSE ckind
             /\ lame' = IF gfp # NULL
                        THEN [lame EXCEPT ![gfp] =
                                 [num_channels |-> cfg.num_channels,
                                  in_samplerate |-> cfg.in_samplerate,
                                  out_samplerate |-> cfg.out_samplerate,
                                  brate |-> cfg.brate,
                                  bWriteVbrTag |-> cfg.bWriteVbrTag,
                                  params |-> ret_code]]
                        ELSE lame
             /\ last' = [op |-> "init_lame", ret |-> init_lame_return(gfp, ret_code),
                         number_of_channels |-> number_of_channels,
                         sample_rate |-> sample_rate, bitrate |-> bitrate,
                         handle |-> gfp, codec |-> ret_code,
                         calls |-> <<Call("lame_init", NULL),
                                     Call("lame_set_num_channels", gfp),
                                     Call("lame_set_in_samplerate", gfp),
                                     Call("lame_set_out_samplerate", gfp),
                                     Call("lame_set_brate", gfp),
                                     Call("lame_set_bWriteVbrTag", gfp),
                                     Call("lame_init_params", gfp)>>,
                         live |-> Cardinality({h \in Handle :
                                     ckind[h] = "lame" /\ ctx[h] = "live"}),
                         faults |-> {}]
    /\ UNCHANGED <<mem, obj, kind, encp, resolved, known, gbl, halted>>

\* lame-bridge.c:29: encode_samples returns lame_encode_buffer's result.
encode_samples_return(ret) == ret

encode_samples(gfp) ==
    /\ ~halted
    /\ gfp \in Handle
    /\ ckind[gfp] = "lame"
    /\ ctx[gfp] = "live"
    /\ \E ret \in StepRets :
         last' = [op |-> "encode_samples", session |-> gfp, pre |-> lame[gfp],
                  ret |-> encode_samples_return(ret), codec |-> ret,
                  calls |-> <<Call("lame_encode_buffer", gfp)>>, faults |-> {}]
    /\ UNCHANGED <<mem, obj, kind, ctx, ckind, lame, encp, resolved, known, gbl, created,
                   halted>>

\* lame-bridge.c:34: flush_lame returns lame_encode_flush's result.
flush_lame_return(ret) == ret

flush_lame(gfp) ==
    /\ ~halted
    /\ gfp \in Handle
    /\ ckind[gfp] = "lame"
    /\ ctx[gfp] = "live"
    /\ \E ret \in StepRets :
         last' = [op |-> "flush_lame", session |-> gfp, pre |-> lame[gfp],
                  ret |-> flush_lame_return(ret), codec |-> ret,
                  calls |-> <<Call("lame_encode_flush", gfp)>>, faults |-> {}]
    /\ UNCHANGED <<mem, obj, kind, ctx, ckind, lame, encp, resolved, known, gbl, created,
                   halted>>

\* close_lame, returning without the call to lame_close.
close_lame_calls_none(gfp) == <<>>

\* lame-bridge.c:39: close_lame hands its argument to lame_close, unguarded.
close_lame_calls(gfp) == <<Call("lame_close", gfp)>>

\* lame_close ignores a NULL context; it reads the context it is given, so on
\* a destroyed one the read (and the release that may follow) is undefined.
close_lame(gfp) ==
    /\ ~halted
    /\ gfp \in {NULL} \cup {h \in Handle : ckind[h] = "lame"}
    /\ LET m      == IF gfp = NULL THEN "live" ELSE ctx[gfp]
           calls  == close_lame_calls(gfp)
           faults == CloseFaults(gfp, m, calls)
       IN  /\ ctx' = CtxAfter(calls)
           /\ \E trap \in TrapOutcomes(faults) :
                /\ halted' = trap
                /\ last' = [op |-> "close_lame", session |-> gfp, pre |-> m,
                            calls |-> calls, faults |-> faults,
                            prior |-> IF last.op = "init_lame"
                                      THEN [op |-> last.op, ret |-> last.ret,
                                            live |-> last.live]
                                      ELSE [op |-> last.op, ret |-> NULL, live |-> 0],
                            live |-> Cardinality({h \in Handle :
                                        ckind[h] = "lame" /\ ctx'[h] = "live"})]
    /\ UNCHANGED <<mem, obj, kind, ckind, lame, encp, resolved, known, gbl, created>>

AudioNext ==
    \/ \E c \in Channels, r \in SampleRates, b \in AudioBitrates : init_lame(c, r, b)
    \/ \E h \in Handle : encode_samples(h)
    \/ \E h \in Handle : flush_lame(h)
    \/ \E h \in {NULL} \cup Handle : close_lame(h)

SpecAudio == Init /\ [][AudioNext]_vars

\* -------------------------------------------------------- the whole bridge
VideoNext == DecNext \/ EncNext

SpecVideo == Init /\ [][VideoNext]_vars

\* An encoder's output decoded: the caller creates sessions, encodes, and
\* hands a decoder bytes from anywhere or the bytes encode_frame has just
\* returned.  (Close is exercised by the specifications above.)
RoundTripNext ==
    \/ \E p \in HintPairs : init_decoder(p[1], p[2])
    \/ \E p \in HintPairs, b \in VideoBitrates, f \in FrameRates :
          init_encoder(p[1], p[2], b, f[1], f[2])
    \/ \E a \in Addr, k \in {0, 1} : encode_frame(a, k)
    \/ \E a \in Addr, outs \in OutSets, input \in Inputs : decode_frame(a, outs, input)

SpecRoundTrip == Init /\ [][RoundTripNext]_vars

Next == DecNext \/ EncNext \/ AudioNext

Spec == Init /\ [][Next]_vars

\* ------------------------------------------------------------------ claims
\* How many of the calls of the call that just returned went to fn.
Count(calls, fn) == Cardinality({i \in 1..Len(calls) : calls[i].fn = fn})

CloseOps == {"close_decoder", "close_encoder", "close_lame"}
DestroyFns == {"XVID_DEC_DESTROY", "XVID_ENC_DESTROY", "lame_close"}

\* C1 (as claimed): a Close of the null session, or a second Close of a
\* session that was already closed, does not fault: it reads no released
\* session state, releases no codec context a second time and frees no wrapper
\* a second time.
C1_IdempotentClose ==
    (last.op \in CloseOps /\ (last.session = NULL \/ last.pre # "live"))
        => /\ last.faults = {}
           /\ \A i \in 1..Len(last.calls) :
                 /\ last.calls[i].fn = "free" => last.calls[i].h = NULL
                 /\ last.calls[i].fn \in DestroyFns => last.calls[i].h = NULL

\* C2: whenever the decoder step of a decode_frame call reports the
\* header-only type, the session's stored width/height after the call are the
\* width/height of that header, whatever they were before, and the
\* width/height the call reports to the caller are those same values.
C2_HeaderOnlyTransition ==
    (last.op = "decode_frame" /\ last.stats.type = HeaderOnly)
        => /\ obj[last.session].width = last.stats.width
           /\ obj[last.session].height = last.stats.height
           /\ "width" \in last.outs => last.out.width = last.stats.width
           /\ "height" \in last.outs => last.out.height = last.stats.height

\* C2 witness: a header arrives on a session whose dimensions an earlier
\* header had already resolved to other values, and the caller asked for them.
C2_Witness ==
    /\ last.op = "decode_frame"
    /\ last.stats.type = HeaderOnly
    /\ last.preKnown
    /\ last.pre.width # last.stats.width
    /\ last.outs = {"type", "width", "height"}
    /\ last.out.width = last.stats.width

\* C3: the planes and strides a decode_frame call hands to the decoder step
\* come from the session's width/height as they were before the call (the V
\* plane wherever w*h*5 is defined), while the width/height it reports are
\* those the session holds after the call.
C3_CallTimeGeometry ==
    last.op = "decode_frame"
        => LET w == last.pre.width
               h == last.pre.height
           IN  /\ last.stride = <<w, CDiv(w, 2), CDiv(w, 2)>>
               /\ last.plane[1] = 0
               /\ last.plane[2] = w * h
               /\ MulFits(5, w * h) => last.plane[3] = CDiv(w * h * 5, 4)
               /\ "width" \in last.outs => last.out.width = obj[last.session].width
               /\ "height" \in last.outs => last.out.height = obj[last.session].height

\* C3 witness: a header-only call that changes the dimensions: the geometry
\* is that of the old dimensions, the reported ones are the new.
C3_Witness ==
    /\ last.op = "decode_frame"
    /\ last.stats.type = HeaderOnly
    /\ last.pre.width = 2 /\ last.pre.height = 2
    /\ last.stats.width = 1
    /\ last.plane = <<0, 4, 5>>
    /\ last.stride = <<2, 1, 1>>
    /\ last.outs = {"type", "width", "height"}
    /\ last.out.width = 1

\* C4: every decode_frame call computes its planes and strides from the
\* width/height of the most recent header-only result of its session, and
\* from the hint given to init_decoder while there has been none (the V plane
\* wherever w*h*5 is defined).
C4_GeometryFollowsResolution ==
    last.op = "decode_frame"
        => LET w == last.preResolved[1]
               h == last.preResolved[2]
           IN  /\ last.stride = <<w, CDiv(w, 2), CDiv(w, 2)>>
               /\ last.plane[1] = 0
               /\ last.plane[2] = w * h
               /\ MulFits(5, w * h) => last.plane[3] = CDiv(w * h * 5, 4)

\* C4 witness: a call after a header-only result whose dimensions no hint
\* equals, with planes laid out for them.
C4_Witness ==
    /\ last.op = "decode_frame"
    /\ last.preKnown
    /\ last.preResolved \notin HintPairs
    /\ last.preResolved[1] > 0
    /\ last.stride[1] = last.preResolved[1]
    /\ last.plane[2] = last.preResolved[1] * last.preResolved[2]

InitOps == {"init_decoder", "init_encoder"}

\* C6 (as claimed): when malloc fails in init_decoder or init_encoder, the
\* call returns NULL without a fault and the codec context it created, if
\* any, is not left live.
C6_AllocationFailure ==
    (last.op \in InitOps /\ last.malloc = NULL)
        => /\ last.ret = NULL
           /\ last.faults = {}
           /\ last.handle # NULL => ctx[last.handle] # "live"

\* C7 (as claimed): when the codec's create step fails, init_decoder and
\* init_encoder return NULL, the wrapper they allocated is freed exactly once
\* and no codec context of the call exists; when the step succeeds they
\* return a live wrapper that holds the handle the codec produced.
C7_ContextCreation ==
    last.op \in InitOps
        => /\ last.codec # 0
              => /\ last.ret = NULL
                 /\ last.handle = NULL
                 /\ last.malloc # NULL
                    => /\ mem[last.malloc] = "freed"
                       /\ Cardinality({i \in 1..Len(last.calls) :
                             last.calls[i] = Call("free", last.malloc)}) = 1
           /\ last.codec = 0
              => /\ last.ret # NULL
                 /\ mem[last.ret] = "live"
                 /\ obj[last.ret].handle = last.handle

\* C8: a close_lame issued right after init_lame on the session that
\* init_lame returned does not fault, destroys the context init_lame created
\* with exactly one lame_close, and leaves as many live audio contexts as
\* there were before init_lame.
C8_AudioCreateCloseBalance ==
    (/\ last.op = "close_lame"
     /\ last.prior.op = "init_lame"
     /\ last.prior.ret = last.session)
        => /\ last.faults = {}
           /\ Count(last.calls, "lame_close") = 1
           /\ last.session # NULL => ctx[last.session] = "destroyed"
           /\ last.live = last.prior.live
           /\ Cardinality({h \in Handle : ckind[h] = "lame" /\ ctx[h] = "live"})
                 = last.prior.live

\* C8 witness: with another audio session live, a session is created and
\* closed at once; one audio context is live again.
C8_Witness ==
    /\ last.op = "close_lame"
    /\ last.prior.op = "init_lame"
    /\ last.session # NULL
    /\ last.prior.ret = last.session
    /\ last.prior.live = 1
    /\ ctx[last.session] = "destroyed"

\* C9: every decode_frame call makes exactly one call into the codec, the
\* decoder step, and returns the result code of that step.
C9_DecodePassThrough ==
    last.op = "decode_frame"
        => /\ Len(last.calls) = 1
           /\ Count(last.calls, "XVID_DEC_DECODE") = 1
           /\ last.ret = last.codec

\* C9 witness: the step fails with a negative code on a unit it reports as
\* header-only, changing the dimensions; the code comes back as it is.
C9_Witness ==
    /\ last.op = "decode_frame"
    /\ last.codec < 0
    /\ last.ret = last.codec
    /\ last.stats.type = HeaderOnly
    /\ last.pre.width # last.stats.width

\* C10: every encode_frame call makes exactly one call into the codec, the
\* encoder step; a positive value it returns is the output length the codec
\* reported, and a zero or negative step result is returned as it is.
C10_EncodeResult ==
    last.op = "encode_frame"
        => /\ Len(last.calls) = 1
           /\ Count(last.calls, "XVID_ENC_ENCODE") = 1
           /\ last.ret > 0 => last.ret = last.stats.length
           /\ last.codec <= 0 => last.ret = last.codec

\* C10 witness: the step returns a positive code other than the length it
\* reports, and the call returns the length.
C10_Witness ==
    /\ last.op = "encode_frame"
    /\ last.codec > 0
    /\ last.stats.length > 0
    /\ last.stats.length # last.codec
    /\ last.ret = last.stats.length

\* C11: on every decode_frame call, whatever the step's result code, the type
\* reported through out_type is the type the step reported for this call, and
\* the width/height reported are the ones the session holds after the call.
C11_OutcomeIndependentReporting ==
    last.op = "decode_frame"
        => /\ "type" \in last.outs => last.out.type = last.stats.type
           /\ "width" \in last.outs => last.out.width = obj[last.session].width
           /\ "height" \in last.outs => last.out.height = obj[last.session].height

\* C11 witness: the step fails with a negative code on a picture unit of a
\* session with resolved dimensions; type and dimensions are reported all the
\* same.
C11_Witness ==
    /\ last.op = "decode_frame"
    /\ last.codec < 0
    /\ last.stats.type = 1
    /\ last.preKnown
    /\ last.outs = {"type", "width", "height"}
    /\ last.out.type = 1
    /\ last.out.width = last.pre.width
    /\ last.out.width # last.stats.width

\* C12: an init_lame whose lame_init produced a context returns that context,
\* whatever lame_init_params answered.
C12_CreateIgnoresValidation ==
    (last.op = "init_lame" /\ last.handle # NULL) => last.ret = last.handle

\* C12 witness: lame_init_params rejects the configuration and init_lame
\* still returns the context.
C12_Witness ==
    /\ last.op = "init_lame"
    /\ last.handle # NULL
    /\ last.codec # 0
    /\ last.ret = last.handle

\* C18: a decode_frame call alters the session words only when the step
\* reports type -1, and then it stores the header's width/height, whatever
\* the sign of the result code; a call reporting any other type leaves width,
\* height and the decoder handle as they were; the handle never changes.
C18_TransitionCondition ==
    last.op = "decode_frame"
        => /\ obj[last.session] # last.pre => last.stats.type = HeaderOnly
           /\ last.stats.type = HeaderOnly
                 => /\ obj[last.session].width = last.stats.width
                    /\ obj[last.session].height = last.stats.height
           /\ last.stats.type # HeaderOnly
                 => /\ obj[last.session].width = last.pre.width
                    /\ obj[last.session].height = last.pre.height
           /\ obj[last.session].handle = last.pre.handle

\* C18 witness: the step returns a negative code and reports type -1; the
\* stored dimensions change.
C18_Witness ==
    /\ last.op = "decode_frame"
    /\ last.codec < 0
    /\ last.stats.type = HeaderOnly
    /\ obj[last.session].width # last.pre.width
    /\ obj[last.session].width = last.stats.width

\* The encoder sessions a caller holds that have not been closed.
LiveEncoders == {a \in Addr : kind[a] = "enc" /\ mem[a] = "live"}

\* C13: a live encoder session holds the width/height its Create was given,
\* after any number of encode_frame calls, and every encode_frame call lays
\* out its planes and strides from exactly these two values.
C13_EncoderGeometryFixed ==
    /\ \A a \in LiveEncoders :
          /\ obj[a].width = resolved[a][1]
          /\ obj[a].height = resolved[a][2]
    /\ last.op = "encode_frame"
          => LET w == resolved[last.session][1]
                 h == resolved[last.session][2]
             IN  /\ last.pre = obj[last.session]
                 /\ last.stride = <<w, CDiv(w, 2), CDiv(w, 2)>>
                 /\ last.plane[1] = 0
                 /\ last.plane[2] = w * h
                 /\ MulFits(5, w * h) => last.plane[3] = CDiv(w * h * 5, 4)

\* C13 witness: an encode_frame call on a session created as 2 x 4, with
\* that geometry.
C13_Witness ==
    /\ last.op = "encode_frame"
    /\ resolved[last.session] = <<2, 4>>
    /\ obj[last.session].width = 2
    /\ obj[last.session].height = 4
    /\ last.stride = <<2, 1, 1>>
    /\ last.plane = <<0, 8, 10>>

VideoCloseOps == {"close_decoder", "close_encoder"}
\* The destroy call a video Close makes, on the handle it read.
DestroyOf(op) == IF op = "close_decoder" THEN "XVID_DEC_DESTROY" ELSE "XVID_ENC_DESTROY"

\* C16: a video Close of a non-NULL session calls the codec's destroy once
\* when the handle it read is non-NULL and not at all otherwise, on that
\* handle and before it frees the wrapper, and frees the wrapper once; when
\* the session was live (created successfully, not closed before) its context
\* was live until then and is destroyed by this Close, the wrapper is freed,
\* nothing undefined happens, and no other live session holds that handle.
C16_CloseOrderAndGuard ==
    /\ (last.op \in VideoCloseOps /\ last.session # NULL)
          => LET n == Len(last.calls)
             IN  /\ Count(last.calls, DestroyOf(last.op))
                       = (IF last.handle # NULL THEN 1 ELSE 0)
                 /\ Count(last.calls, "free") = 1
                 /\ n = (IF last.handle # NULL THEN 2 ELSE 1)
                 /\ last.calls[n] = Call("free", last.session)
                 /\ last.handle # NULL
                       => last.calls[1] = Call(DestroyOf(last.op), last.handle)
    /\ (last.op \in VideoCloseOps /\ last.session # NULL /\ last.pre = "live")
          => /\ last.handle # NULL
             /\ last.faults = {}
             /\ ctx[last.handle] = "destroyed"
             /\ mem[last.session] = "freed"
             /\ \A b \in Addr \ {last.session} :
                   mem[b] = "live" => obj[b].handle # last.handle
    /\ \A a, b \in Addr :
          (a # b /\ mem[a] = "live" /\ mem[b] = "live") => obj[a].handle # obj[b].handle

\* C16 witness: the first Close of a live decoder session, destroy then
\* free, while another session is live.
C16_Witness ==
    /\ last.op = "close_decoder"
    /\ last.session # NULL
    /\ last.pre = "live"
    /\ last.calls = <<Call("XVID_DEC_DESTROY", last.handle), Call("free", last.session)>>
    /\ \E b \in Addr \ {last.session} : mem[b] = "live" /\ ctx[obj[b].handle] = "live"

\* The LAME calls that change a context's configuration.
LameSetters == {"lame_set_num_channels", "lame_set_in_samplerate",
                "lame_set_out_samplerate", "lame_set_brate", "lame_set_bWriteVbrTag"}

\* C17: init_lame calls each setter once and lame_init_params once, after
\* every setter; the context then holds the input and the output sample rate
\* equal to sample_rate, the bitrate argument divided by 1000 with the
\* remainder dropped (0 below 1000) and the VBR tag off; encode_samples and
\* flush_lame call no setter and leave the configuration as it was.
C17_AudioConfiguration ==
    /\ last.op = "init_lame"
          => /\ \A f \in LameSetters : Count(last.calls, f) = 1
             /\ Count(last.calls, "lame_init_params") = 1
             /\ last.calls[Len(last.calls)].fn = "lame_init_params"
             /\ last.handle # NULL
                   => LET c == lame[last.handle]
                      IN  /\ c.num_channels = last.number_of_channels
                          /\ c.in_samplerate = last.sample_rate
                          /\ c.out_samplerate = last.sample_rate
                          /\ c.brate * 1000 <= last.bitrate
                          /\ last.bitrate < (c.brate + 1) * 1000
                          /\ c.bWriteVbrTag = 0
    /\ last.op \in {"encode_samples", "flush_lame"}
          => /\ \A f \in LameSetters : Count(last.calls, f) = 0
             /\ lame[last.session] = last.pre
             /\ last.pre.in_samplerate = last.pre.out_samplerate
             /\ last.pre.bWriteVbrTag = 0

\* C17 witness: a bitrate below 1000 that is no multiple of 1000 reaches
\* LAME as 0 kbit/s.
C17_Witness ==
    /\ last.op = "init_lame"
    /\ last.handle # NULL
    /\ last.bitrate > 0
    /\ last.bitrate % 1000 # 0
    /\ lame[last.handle].brate = 0
    /\ lame[last.handle].in_samplerate = lame[last.handle].out_samplerate

\* The calls that take a session argument.
SessionOps == {"decode_frame", "encode_frame", "close_decoder", "close_encoder"}

\* C14: a call in which nothing undefined happens leaves every live session
\* other than its own as it was: wrapper words, wrapper memory and codec
\* context; a decode_frame or encode_frame call hands the codec its own
\* session's handle and lays out planes from its own session's width, and a
\* Close of a live session destroys its own handle and frees its own wrapper,
\* so what a session does and returns does not depend on the other sessions;
\* xvid_global is run by Create only.
C14_SessionIndependence ==
    [][/\ \A b \in Addr :
             (/\ mem[b] = "live"
              /\ last'.faults = {}
              /\ ~(last'.op \in SessionOps /\ last'.session = b))
             => /\ obj'[b] = obj[b]
                /\ mem'[b] = mem[b]
                /\ ctx'[obj[b].handle] = ctx[obj[b].handle]
                /\ resolved'[b] = resolved[b]
                /\ known'[b] = known[b]
       /\ last'.op \in {"decode_frame", "encode_frame"}
             => /\ \A i \in 1..Len(last'.calls) :
                      last'.calls[i].h = obj[last'.session].handle
                /\ last'.pre = obj[last'.session]
                /\ last'.stride[1] = obj[last'.session].width
                /\ last'.plane[2] = obj[last'.session].width * obj[last'.session].height
       /\ (last'.op \in VideoCloseOps /\ last'.session # NULL /\ last'.pre = "live")
             => \A i \in 1..Len(last'.calls) :
                   last'.calls[i].h = (IF last'.calls[i].fn = "free" THEN last'.session
                                       ELSE obj[last'.session].handle)
       /\ gbl' # gbl => last'.op \in InitOps
      ]_vars

\* C14 witness: a decode_frame call stores a header's dimensions in its
\* session while a live encoder session holds other dimensions.
C14_Witness ==
    /\ last.op = "decode_frame"
    /\ last.stats.type = HeaderOnly
    /\ obj[last.session] # last.pre
    /\ \E b \in Addr \ {last.session} :
          /\ mem[b] = "live" /\ kind[b] = "enc"
          /\ obj[b].width # obj[last.session].width
          /\ ctx[obj[b].handle] = "live"

C19_BitrateNonInterference ==
    /\ (/\ last.op = "init_encoder"
        /\ last.prior.op = "init_encoder"
        /\ last.prior.width = last.width
        /\ last.prior.height = last.height
        /\ last.prior.fps_num = last.fps_num
        /\ last.prior.fps_den = last.fps_den
        /\ last.prior.bitrate # last.bitrate)
          => /\ last.create = last.prior.create
             /\ (last.ret # NULL /\ last.prior.ret # NULL)
                   => /\ obj[last.ret].width = obj[last.prior.ret].width
                      /\ obj[last.ret].height = obj[last.prior.ret].height
    /\ last.op = "encode_frame"
          => /\ last.type = (IF last.force_keyframe # 0 THEN "XVID_TYPE_IVOP"
                             ELSE "XVID_TYPE_AUTO")
             /\ last.stride = <<last.pre.width, CDiv(last.pre.width, 2),
                                CDiv(last.pre.width, 2)>>
             /\ last.plane[2] = last.pre.width * last.pre.height
             /\ last.calls = <<Call("XVID_ENC_ENCODE", last.pre.handle)>>
             /\ \A b \in LiveEncoders :
                   resolved[b] = resolved[last.session]
                      => (obj[b].width = last.pre.width /\ obj[b].height = last.pre.height)

\* C19 witness: two sessions created in a row as 2 x 4 with different
\* bitrates, both successfully, with the same create parameters.
C19_Witness ==
    /\ last.op = "init_encoder"
    /\ last.prior.op = "init_encoder"
    /\ last.width = 2 /\ last.height = 4
    /\ last.prior.width = 2 /\ last.prior.height = 4
    /\ last.prior.bitrate # last.bitrate
    /\ last.ret # NULL /\ last.prior.ret # NULL
    /\ last.create = last.prior.create
    /\ obj[last.ret].width = obj[last.prior.ret].width

====
